---- MODULE Spec2Model ----
(***************************************************************************)
(* Model of timeloopfe/common/processor.py: the Processor base class      *)
(* (get_index, must_run_after, add_attr) and References2CopiesProcessor   *)
(* (process, refs2copies_fast).                                           *)
(*                                                                         *)
(* Objects live in a heap, a sequence of records indexed by identity      *)
(* (Python's id()).  Identities are never reused: refs2copies_fast keeps  *)
(* every visited value in `visited`, and every copy it makes is stored in *)
(* the tree.                                                               *)
(***************************************************************************)
EXTENDS Integers, Sequences, FiniteSets, TLC

\* Bound: number of field slots the loader fills in the whole specification.
MaxEdges == 4

\* Bound: number of times the resolver is run on the same specification.
MaxRuns == 2

\* Depth at which the interpreter gives up with RecursionError.  The unfolding
\* of an acyclic graph with MaxEdges field slots is at most MaxEdges deep, so
\* only an unbounded recursion reaches it.
RecursionLimit == MaxEdges + 1

\* Values a scalar or a plain list may carry.
Vals == {1, 2}

\* Identity of the specification (the root Node) and of its processors list.
Root == 1
ProcList == 2

VARIABLES
  heap,      \* identity -> [kind, fields, parent, val, spec]
  pre,       \* the heap as it was when the last process() call started
  status,    \* "loading"; how the last process() ended: "returned" / "RecursionError";
             \* "reparented" once set_parents was called after a process()
  ranOn,     \* the status when the last process() call started
  runs,      \* number of process() calls made
  visited,   \* the `visited` list of the last process() call
  calls,     \* <<argument, result>> of every refs2copies_fast call that returned
  selfSpec,  \* the resolver's self.spec attribute is set
  registered,      \* spec.processors: the processor types in registration order
  processors_run,  \* spec._processors_run: the log the ordering queries read
  stage,           \* "idle" / "declare" / "process" / "done" / "failed" / "query"
  pidx,            \* position in `registered` of the processor handled next
  instSpec,        \* instSpec[k]: processor k's self.spec attribute is set
  regTypes,        \* keys of spec._processor_attributes
  owners,          \* <<type name, attribute, owner>> entries of spec._processor_attributes
  lastCall,        \* the last must_run_after / add_attr call and how it ended
  problem,         \* the item names of the Node spec.problem, in order
  logAt            \* when the runner enters a processor in the run log:
                   \* "start" or "end" of its process

rvars == <<heap, pre, status, ranOn, runs, visited, calls, selfSpec>>
pvars == <<registered, processors_run, stage, pidx, instSpec, regTypes, owners, lastCall,
          problem, logAt>>
vars == <<rvars, pvars>>

Obj(k, f, p, v) == [kind |-> k, fields |-> f, parent |-> p, val |-> v, spec |-> TRUE]

IsNode(h, o) == h[o].kind = "node"

RECURSIVE SumFields(_, _)
SumFields(h, o) ==
  IF o = 0 THEN 0 ELSE Len(h[o].fields) + SumFields(h, o - 1)

\* Field slots filled by the loader (the processors slot of the root excluded).
NEdges(h) == SumFields(h, Len(h)) - 1

----------------------------------------------------------------------------
\* copy.deepcopy

RECURSIVE Closure(_, _, _)
Closure(h, frontier, acc) ==
  IF frontier = {} THEN acc
  ELSE LET o == CHOOSE x \in frontier : TRUE
           nxt == { h[o].fields[i] : i \in DOMAIN h[o].fields }
                    \cup (IF h[o].parent = 0 THEN {} ELSE {h[o].parent})
           new == { x \in nxt : x \notin acc /\ h[x].kind # "scalar" }
       IN Closure(h, (frontier \ {o}) \cup new, acc \cup new)

\* Deep copy of object n: every non-atomic object reachable from n through
\* item values and through the parent_node attribute is duplicated once (the
\* memo keeps sharing and cycles inside the copy); atomic scalars are returned
\* as they are.
deepcopy(h, n) ==
  IF h[n].kind = "scalar" THEN [heap |-> h, ret |-> n]
  ELSE
    LET C == Closure(h, {n}, {n})
        rank(o) == Cardinality({ x \in C : x < o })
        new(o) == IF o \in C THEN Len(h) + 1 + rank(o) ELSE o
        src(k) == CHOOSE o \in C : rank(o) = k - 1
        dup(o) == [ kind   |-> h[o].kind,
                    fields |-> [ i \in DOMAIN h[o].fields |-> new(h[o].fields[i]) ],
                    parent |-> IF h[o].parent = 0 THEN 0 ELSE new(h[o].parent),
                    val    |-> h[o].val,
                    spec   |-> h[o].spec ]
    IN [ heap |-> h \o [ k \in 1..Cardinality(C) |-> dup(src(k)) ],
         ret  |-> new(n) ]

----------------------------------------------------------------------------
\* References2CopiesProcessor

\* Faulty variant: an identity seen before is never copied.
copy_if_seen_never(h, seen, n) == [heap |-> h, ret |-> n]

\* `if id(n) in seen_ids: n = copy.deepcopy(n)`
copy_if_seen(h, seen, n) ==
  IF n \in seen THEN deepcopy(h, n) ELSE [heap |-> h, ret |-> n]

RECURSIVE refs2copies_fast(_, _, _), visit_items(_, _, _, _)

\* st = [heap, seen, visited, calls, status, ret]; the result's ret is the value
\* returned, and calls records each <<n, returned value>>.
refs2copies_fast(st, n, depth) ==
  IF st.status # "ok" THEN st
  ELSE IF depth > RecursionLimit THEN [st EXCEPT !.status = "RecursionError"]
  ELSE
    LET node == IsNode(st.heap, n)
        h1 == IF node THEN [st.heap EXCEPT ![n].parent = 0] ELSE st.heap
        cp == copy_if_seen(h1, st.seen, n)
        m  == cp.ret
        st1 == [st EXCEPT !.heap = cp.heap,
                          !.visited = Append(@, n),
                          !.seen = @ \cup {m}]
    IN IF ~node THEN [st1 EXCEPT !.ret = m, !.calls = Append(@, <<n, m>>)]
       ELSE LET st2 == visit_items(st1, m, 1, depth)
            IN IF st2.status # "ok" THEN st2
               ELSE [st2 EXCEPT !.heap[m].parent = 0, !.ret = m,
                                !.calls = Append(@, <<n, m>>)]

\* The loop `for i, x in n.items()` from item i on.
visit_items(st, n, i, depth) ==
  IF i > Len(st.heap[n].fields) THEN st
  ELSE
    LET r == refs2copies_fast(st, st.heap[n].fields[i], depth + 1)
    IN IF r.status # "ok" THEN r
       ELSE
         LET x  == r.ret
             h1 == [r.heap EXCEPT ![n].fields[i] = x]
             h2 == IF IsNode(h1, x)
                     THEN [h1 EXCEPT ![x].parent = n, ![x].spec = TRUE]
                     ELSE h1
         IN visit_items([r EXCEPT !.heap = h2], n, i + 1, depth)

\* Faulty variant: the processors list is left in place during the traversal.
process_keeps_processors(h) ==
  refs2copies_fast(
    [heap |-> h, seen |-> {}, visited |-> <<>>, calls |-> <<>>,
     status |-> "ok", ret |-> 0],
    Root, 0)

\* References2CopiesProcessor.process on heap h: the processors list is
\* swapped for a fresh empty list, the specification is traversed, and the
\* list is put back.  An exception leaves before the list is put back.
process(h) ==
  LET processors == h[Root].fields[1]
      empty == Len(h) + 1
      h1 == Append([h EXCEPT ![Root].fields[1] = empty], Obj("list", <<>>, 0, 0))
      st == refs2copies_fast(
              [heap |-> h1, seen |-> {}, visited |-> <<>>, calls |-> <<>>,
               status |-> "ok", ret |-> 0],
              Root, 0)
  IN IF st.status = "ok"
       THEN [st EXCEPT !.heap[Root].fields[1] = processors]
       ELSE st

----------------------------------------------------------------------------
\* The loader and the resolver as a state machine

NoCall == [ op |-> "none", during |-> "none", caller |-> 0, callerType |-> "none",
            arg |-> "none", ok_if_not_found |-> FALSE,
            error |-> "none", names |-> <<>> ]

PipelineIdle ==
  /\ registered = <<>>
  /\ processors_run = <<>>
  /\ stage = "idle"
  /\ pidx = 0
  /\ instSpec = <<>>
  /\ regTypes = {}
  /\ owners = {}
  /\ lastCall = NoCall
  /\ problem = <<>>
  /\ logAt = "start"

Init ==
  /\ PipelineIdle
  /\ heap = << Obj("node", <<ProcList>>, 0, 0), Obj("list", <<>>, 0, 0) >>
  /\ pre = heap
  /\ status = "loading"
  /\ ranOn = "none"
  /\ runs = 0
  /\ visited = <<>>
  /\ calls = <<>>
  /\ selfSpec = FALSE

Nodes(h) == { o \in DOMAIN h : IsNode(h, o) }

\* The loader stores a new value in a new field of Node c.
AttachNew(c, k, v) ==
  /\ status = "loading"
  /\ NEdges(heap) < MaxEdges
  /\ heap' = Append([heap EXCEPT ![c].fields = Append(@, Len(heap) + 1)],
                    Obj(k, <<>>, IF k = "node" THEN c ELSE 0, v))
  /\ pre' = heap'
  /\ UNCHANGED <<status, ranOn, runs, visited, calls, selfSpec, pvars>>

\* The loader stores an existing value in a new field of Node c (a reference).
AttachExisting(c, t, p) ==
  /\ status = "loading"
  /\ NEdges(heap) < MaxEdges
  /\ heap' = [heap EXCEPT ![c].fields = Append(@, t),
                          ![t].parent = IF IsNode(heap, t) THEN p ELSE @]
  /\ pre' = heap'
  /\ UNCHANGED <<status, ranOn, runs, visited, calls, selfSpec, pvars>>

\* set_parents(n): every item of n that is a Node gets parent_node = n.
RECURSIVE set_parents_from(_, _, _)
set_parents_from(h, n, i) ==
  IF i > Len(h[n].fields) THEN h
  ELSE LET x == h[n].fields[i]
       IN set_parents_from(IF IsNode(h, x) THEN [h EXCEPT ![x].parent = n] ELSE h,
                           n, i + 1)

set_parents(h, n) == set_parents_from(h, n, 1)

\* One call of set_parents(n), while the tree is loaded or after a process().
SetParents(n) ==
  /\ status \in {"loading", "returned", "reparented"}
  /\ heap' = set_parents(heap, n)
  /\ pre' = IF status = "loading" THEN heap' ELSE pre
  /\ status' = IF status = "loading" THEN "loading" ELSE "reparented"
  /\ UNCHANGED <<ranOn, runs, visited, calls, selfSpec, pvars>>

\* One call of References2CopiesProcessor.process(spec).
Process ==
  /\ status \in {"loading", "returned", "reparented"}
  /\ runs < MaxRuns
  /\ ranOn' = status
  /\ LET st == process(heap)
     IN /\ heap' = st.heap
        /\ visited' = st.visited
        /\ calls' = st.calls
        /\ status' = IF st.status = "ok" THEN "returned" ELSE st.status
  /\ pre' = heap
  /\ runs' = runs + 1
  /\ selfSpec' = TRUE
  /\ UNCHANGED pvars

Next ==
  \/ \E c \in Nodes(heap) : AttachNew(c, "node", 0)
  \/ \E c \in Nodes(heap), k \in {"list", "scalar"}, v \in Vals : AttachNew(c, k, v)
  \/ \E c \in Nodes(heap), t \in DOMAIN heap \ {Root, ProcList} :
       \E p \in {heap[t].parent, c} : AttachExisting(c, t, p)
  \/ \E n \in Nodes(heap) : SetParents(n)
  \/ Process

Spec == Init /\ [][Next]_vars

----------------------------------------------------------------------------
\* Processor (base class)

\* Bound: number of processors registered on a specification.
MaxProcs == 2

\* Bound: length of the run logs the ordering queries are tried on.
MaxLog == 2

\* Processor types.  S is a subclass of Q; the others are unrelated.
Classes == {"P", "Q", "S", "T"}

IsSubclass(c, d) == c = d \/ (c = "S" /\ d = "Q")

\* An entry of the run log: a processor instance or a processor type.
Inst(c) == [kind |-> "instance", cls |-> c]
Type(c) == [kind |-> "type", cls |-> c]
Entries == { Inst(c) : c \in Classes } \cup { Type(c) : c \in Classes }

SeqUpTo(S, n) == UNION { [1..m -> S] : m \in 0..n }

\* The three tests get_index makes on an entry, in order.
matches(processor, processor_type) ==
  \/ processor.kind = "type"
  \/ (processor.kind = "instance" /\ IsSubclass(processor.cls, processor_type))
  \/ (processor.kind = "type" /\ processor.cls = processor_type)

\* Processor.get_index: 0-based position of the first matching entry, or -1.
get_index(processor_type, log) ==
  LET hits == { i \in DOMAIN log : matches(log[i], processor_type) }
  IN IF hits = {} THEN -1
     ELSE (CHOOSE i \in hits : \A j \in hits : i <= j) - 1

\* Processor.must_run_after called on an instance of self_type.
must_run_after(self_type, other, log, ok_if_not_found) ==
  LET other_idx == get_index(other, log)
      my_idx == get_index(self_type, log)
  IN IF other_idx > my_idx \/ (other_idx = -1 /\ ~ok_if_not_found)
       THEN [error |-> "ProcessorError", names |-> <<other, self_type>>]
       ELSE [error |-> "none", names |-> <<>>]

\* Targets handed to add_attr: a Node subclass, a class that is no Node, and
\* an object that is no class.
NodeTypes == {"Problem"}
Types == NodeTypes \cup {"int"}
Targets == Types \cup {"a Problem instance"}
AttrNames == {"simple_processor_attr", "y"}

\* Node.add_attr as far as the registry goes: the owner is recorded under the
\* type's unique class name; a name another processor added is refused.
Node_add_attr(target, name, owner, own) ==
  IF \E e \in own : e[1] = target /\ e[2] = name /\ e[3] # owner
    THEN [error |-> "DuplicateAttribute", owners |-> own]
    ELSE [error |-> "none", owners |-> own \cup {<<target, name, owner>>}]

\* Processor.add_attr called on processor k, whose self.spec is set or not.
add_attr(k, specSet, target, name, regT, own) ==
  IF target \notin Types
    THEN [error |-> "TypeError", regTypes |-> regT, owners |-> own]
  ELSE IF target \notin NodeTypes
    THEN [error |-> "TypeError", regTypes |-> regT, owners |-> own]
  ELSE IF ~specSet
    THEN [error |-> "AttributeError", regTypes |-> regT, owners |-> own]
  ELSE LET r == Node_add_attr(target, name, k, own)
       IN [error |-> r.error, regTypes |-> regT \cup {target}, owners |-> r.owners]

----------------------------------------------------------------------------
\* The pipeline runner: declare_attrs for every registered processor, then
\* process for every registered processor, in registration order.  The run
\* log holds the processors executed; the moment at which the runner enters a
\* processor (when its process starts, or when it has ended without error) is
\* fixed for a pipeline by logAt, and both are covered.

ResolverIdle ==
  /\ heap = << Obj("node", <<ProcList>>, 0, 0), Obj("list", <<>>, 0, 0) >>
  /\ pre = heap
  /\ status = "loading"
  /\ ranOn = "none"
  /\ runs = 0
  /\ visited = <<>>
  /\ calls = <<>>
  /\ selfSpec = FALSE

\* Item names spec.problem may hold when the pipeline starts.
ProblemItems ==
  { <<>>, <<"simple_processor_attr">>, <<"other">>,
    <<"simple_processor_attr", "other">>, <<"other", "simple_processor_attr">> }

InitPipeline ==
  /\ ResolverIdle
  /\ registered \in SeqUpTo(Classes, MaxProcs) \ {<<>>}
  /\ processors_run = <<>>
  /\ stage = "declare"
  /\ pidx = 1
  /\ instSpec = <<>>
  /\ regTypes = {}
  /\ owners = {}
  /\ lastCall = NoCall
  /\ problem \in ProblemItems
  /\ logAt \in {"start", "end"}

\* What follows the hook of processor pidx when it ended with `error`.
Advance(error) ==
  IF error # "none" THEN stage' = "failed" /\ pidx' = pidx
  ELSE IF pidx < Len(registered) THEN stage' = stage /\ pidx' = pidx + 1
  ELSE IF stage = "declare" THEN stage' = "process" /\ pidx' = 1
  ELSE stage' = "done" /\ pidx' = pidx

\* The run log as the process of processor k sees it.
Runner_enter(log, k) ==
  IF logAt = "start" THEN Append(log, Inst(registered[k])) ELSE log

\* The run log after the process of processor k ended with `error`.
Runner_leave(log, k, error) ==
  IF logAt = "end" /\ error = "none" THEN Append(log, Inst(registered[k])) ELSE log

\* Processor.__init__: the spec argument is not stored.
Processor_init == Append(instSpec, FALSE)

\* Processor.process: self.spec = spec.
Processor_process(iS, k) == [iS EXCEPT ![k] = TRUE]

\* Processor pidx is constructed and its declare_attrs does nothing.
DeclareDefault ==
  /\ stage = "declare"
  /\ instSpec' = Processor_init
  /\ Advance("none")
  /\ UNCHANGED <<rvars, registered, processors_run, regTypes, owners, lastCall, problem,
                 logAt>>

\* Processor pidx is constructed and its declare_attrs calls add_attr.
DeclareAddAttr(target, name) ==
  /\ stage = "declare"
  /\ instSpec' = Processor_init
  /\ LET r == add_attr(pidx, instSpec'[pidx], target, name, regTypes, owners)
     IN /\ regTypes' = r.regTypes
        /\ owners' = r.owners
        /\ lastCall' = [ op |-> "add_attr", during |-> "declare_attrs",
                         caller |-> pidx, callerType |-> registered[pidx],
                         arg |-> target, ok_if_not_found |-> FALSE,
                         error |-> r.error, names |-> <<name>> ]
        /\ Advance(r.error)
  /\ UNCHANGED <<rvars, registered, processors_run, problem, logAt>>

\* Processor pidx runs a process that makes none of the calls below.
ProcessPlain ==
  /\ stage = "process"
  /\ processors_run' = Runner_leave(Runner_enter(processors_run, pidx), pidx, "none")
  /\ instSpec' = Processor_process(instSpec, pidx)
  /\ Advance("none")
  /\ UNCHANGED <<rvars, registered, regTypes, owners, lastCall, problem, logAt>>

\* SimpleProcessor.process on the item names of spec.problem: the item
\* "simple_processor_attr" is deleted when present.
RECURSIVE SimpleProcessor_process(_)
SimpleProcessor_process(items) ==
  IF items = <<>> THEN <<>>
  ELSE IF Head(items) = "simple_processor_attr"
    THEN SimpleProcessor_process(Tail(items))
    ELSE <<Head(items)>> \o SimpleProcessor_process(Tail(items))

\* Processor pidx runs SimpleProcessor.process, which does not call
\* Processor.process: self.spec is left as it was.
ProcessSimple ==
  /\ stage = "process"
  /\ processors_run' = Runner_leave(Runner_enter(processors_run, pidx), pidx, "none")
  /\ problem' = SimpleProcessor_process(problem)
  /\ Advance("none")
  /\ UNCHANGED <<rvars, registered, instSpec, regTypes, owners, lastCall, logAt>>

\* Processor pidx runs a process that calls must_run_after.
ProcessMustRunAfter(other, ok_if_not_found) ==
  /\ stage = "process"
  /\ instSpec' = Processor_process(instSpec, pidx)
  /\ LET log == Runner_enter(processors_run, pidx)
         r == must_run_after(registered[pidx], other, log, ok_if_not_found)
     IN /\ processors_run' = Runner_leave(log, pidx, r.error)
        /\ lastCall' = [ op |-> "must_run_after", during |-> "process",
                         caller |-> pidx, callerType |-> registered[pidx],
                         arg |-> other, ok_if_not_found |-> ok_if_not_found,
                         error |-> r.error, names |-> r.names ]
        /\ Advance(r.error)
  /\ UNCHANGED <<rvars, registered, regTypes, owners, problem, logAt>>

\* Processor pidx runs a process that calls add_attr.
ProcessAddAttr(target, name) ==
  /\ stage = "process"
  /\ instSpec' = Processor_process(instSpec, pidx)
  /\ LET r == add_attr(pidx, instSpec'[pidx], target, name, regTypes, owners)
     IN /\ processors_run' =
             Runner_leave(Runner_enter(processors_run, pidx), pidx, r.error)
        /\ regTypes' = r.regTypes
        /\ owners' = r.owners
        /\ lastCall' = [ op |-> "add_attr", during |-> "process",
                         caller |-> pidx, callerType |-> registered[pidx],
                         arg |-> target, ok_if_not_found |-> FALSE,
                         error |-> r.error, names |-> <<name>> ]
        /\ Advance(r.error)
  /\ UNCHANGED <<rvars, registered, problem, logAt>>

NextPipeline ==
  \/ DeclareDefault
  \/ \E t \in Targets, a \in AttrNames : DeclareAddAttr(t, a)
  \/ ProcessPlain
  \/ ProcessSimple
  \/ \E o \in Classes, ok \in BOOLEAN : ProcessMustRunAfter(o, ok)
  \/ \E t \in Targets, a \in AttrNames : ProcessAddAttr(t, a)

SpecPipeline == InitPipeline /\ [][NextPipeline]_vars

----------------------------------------------------------------------------
\* must_run_after on any run log

InitOrdering ==
  /\ ResolverIdle
  /\ registered = <<>>
  /\ processors_run \in SeqUpTo(Entries, MaxLog)
  /\ stage = "query"
  /\ pidx = 0
  /\ instSpec = <<>>
  /\ regTypes = {}
  /\ owners = {}
  /\ lastCall = NoCall
  /\ problem = <<>>
  /\ logAt = "start"

\* An instance of self_type calls must_run_after(other, spec, ok_if_not_found).
Query(self_type, other, ok_if_not_found) ==
  /\ stage = "query"
  /\ LET r == must_run_after(self_type, other, processors_run, ok_if_not_found)
     IN lastCall' = [ op |-> "must_run_after", during |-> "query",
                      caller |-> 0, callerType |-> self_type,
                      arg |-> other, ok_if_not_found |-> ok_if_not_found,
                      error |-> r.error, names |-> r.names ]
  /\ UNCHANGED <<rvars, registered, processors_run, stage, pidx, instSpec,
                 regTypes, owners, problem, logAt>>

NextOrdering ==
  \E c \in Classes, o \in Classes, ok \in BOOLEAN : Query(c, o, ok)

SpecOrdering == InitOrdering /\ [][NextOrdering]_vars

----------------------------------------------------------------------------
\* Shape of a heap, for the properties below

\* Objects reachable from the root through item values.
RECURSIVE Below(_, _, _)
Below(h, frontier, acc) ==
  IF frontier = {} THEN acc
  ELSE LET o == CHOOSE x \in frontier : TRUE
           new == { h[o].fields[i] : i \in DOMAIN h[o].fields } \ acc
       IN Below(h, (frontier \ {o}) \cup new, acc \cup new)

Reach(h) == Below(h, {Root}, {Root})
ReachNodes(h) == { o \in Reach(h) : IsNode(h, o) }
Children(h, o) == { h[o].fields[i] : i \in DOMAIN h[o].fields }
Descendants(h, o) == Below(h, Children(h, o), Children(h, o))

\* No reachable Node contains itself, directly or transitively.
Acyclic(h) == \A o \in ReachNodes(h) : o \notin Descendants(h, o)

\* Field locations <<container, item>> of the reachable Nodes.
Locations(h) == { <<c, i>> : c \in ReachNodes(h), i \in 1..MaxEdges + 1 } 

ValidLocations(h) == { l \in Locations(h) : l[2] \in DOMAIN h[l[1]].fields }

At(h, l) == h[l[1]].fields[l[2]]

\* No Node identity is held at two distinct field locations.
TreeShaped(h) ==
  \A l1, l2 \in ValidLocations(h) :
    (l1 # l2 /\ IsNode(h, At(h, l1))) => At(h, l1) # At(h, l2)

\* Paths (sequences of item positions) from o, in an acyclic heap.
RECURSIVE Paths(_, _)
Paths(h, o) ==
  {<<>>} \cup UNION { { <<i>> \o p : p \in Paths(h, h[o].fields[i]) }
                       : i \in DOMAIN h[o].fields }

RECURSIVE ObjAt(_, _, _)
ObjAt(h, o, p) ==
  IF p = <<>> THEN o ELSE ObjAt(h, h[o].fields[Head(p)], Tail(p))

PathsTo(h, o) == { p \in Paths(h, Root) : ObjAt(h, Root, p) = o }

\* Traversal order of paths: depth first, items in order.
RECURSIVE Before(_, _)
Before(p, q) ==
  IF p = <<>> THEN q # <<>>
  ELSE IF q = <<>> THEN FALSE
  ELSE IF Head(p) # Head(q) THEN Head(p) < Head(q)
  ELSE Before(Tail(p), Tail(q))

FirstPath(h, o) ==
  CHOOSE p \in PathsTo(h, o) : \A q \in PathsTo(h, o) \ {p} : Before(p, q)

\* The structure below o with identities and back-references left out.
RECURSIVE Unfold(_, _)
Unfold(h, o) ==
  [ kind  |-> h[o].kind,
    val   |-> h[o].val,
    items |-> [ i \in DOMAIN h[o].fields |-> Unfold(h, h[o].fields[i]) ] ]

Returned == runs >= 1 /\ status = "returned"

SharedNodes(h) ==
  { o \in ReachNodes(h) :
      \E l1, l2 \in ValidLocations(h) : l1 # l2 /\ At(h, l1) = o /\ At(h, l2) = o }

----------------------------------------------------------------------------
\* Properties of the resolver

\* C1: when process returns on an acyclic specification, no Node identity is
\* held at two distinct field locations, and the structure at every location
\* (the locations that held a shared Node included) equals the original's.
C1_AliasesSplit ==
  (Returned /\ Acyclic(pre)) =>
     /\ TreeShaped(heap)
     /\ \A p \in Paths(pre, Root) :
          Unfold(heap, ObjAt(heap, Root, p)) = Unfold(pre, ObjAt(pre, Root, p))

\* A run on a specification that held one Node at two locations has returned.
C1_Witness ==
  /\ runs = 1 /\ status = "returned"
  /\ Acyclic(pre)
  /\ \E o \in SharedNodes(pre) : pre[o].fields # <<>>

\* C2: when process returns, every non-root reachable Node has parent_node
\* equal to the Node that holds it.
C2_ParentsRestored ==
  Returned =>
    \A l \in ValidLocations(heap) :
      IsNode(heap, At(heap, l)) => heap[At(heap, l)].parent = l[1]

\* C3: process returns, with a tree-shaped result, on a specification in
\* which some Node contains itself.
C3_CycleTerminates ==
  (runs >= 1 /\ ~Acyclic(pre)) => (status = "returned" /\ TreeShaped(heap))

\* C6: a second run on the result of the first changes no identity, no field
\* value and no parent_node.
C6_SecondRunNoOp ==
  (runs = 2 /\ status = "returned" /\ ranOn = "returned") =>
     /\ Reach(heap) = Reach(pre)
     /\ \A o \in Reach(pre) :
          /\ heap[o].fields = pre[o].fields
          /\ heap[o].parent = pre[o].parent

\* The parent_node of every reachable non-root Node names the Node holding it.
ParentsRight(h) ==
  \A l \in ValidLocations(h) : IsNode(h, At(h, l)) => h[At(h, l)].parent = l[1]

\* C7: the first location reaching a Node keeps the original object and the
\* later locations receive fresh copies; a Node reachable by exactly one path
\* keeps its identity, its content and its container; on a specification
\* without shared Nodes the pass leaves every identity, every field value and
\* every parent_node as it was.
C7_FirstLocationKeepsOriginal ==
  (Returned /\ Acyclic(pre)) =>
     \A o \in ReachNodes(pre) :
       /\ ObjAt(heap, Root, FirstPath(pre, o)) = o
       /\ \A p \in PathsTo(pre, o) \ {FirstPath(pre, o)} :
            ObjAt(heap, Root, p) \notin DOMAIN pre
       /\ (Cardinality(PathsTo(pre, o)) = 1) =>
            /\ Unfold(heap, o) = Unfold(pre, o)
            /\ \A l \in ValidLocations(pre) :
                 At(pre, l) = o => (l \in ValidLocations(heap) /\ At(heap, l) = o)
       /\ (SharedNodes(pre) = {}) =>
            /\ \A i \in DOMAIN pre[o].fields :
                 /\ IsNode(pre, pre[o].fields[i]) =>
                      heap[o].fields[i] = pre[o].fields[i]
                 /\ Unfold(heap, heap[o].fields[i]) = Unfold(pre, pre[o].fields[i])
            /\ heap[o].parent = pre[o].parent

\* C7 without the parent_node of a specification whose parent_node values
\* were not right before the run: identities, contents and containers are
\* kept, and a parent_node that named the container still names it.
FirstLocationKeepsOriginal ==
  (Returned /\ Acyclic(pre)) =>
     \A o \in ReachNodes(pre) :
       /\ ObjAt(heap, Root, FirstPath(pre, o)) = o
       /\ \A p \in PathsTo(pre, o) \ {FirstPath(pre, o)} :
            ObjAt(heap, Root, p) \notin DOMAIN pre
       /\ (Cardinality(PathsTo(pre, o)) = 1) =>
            /\ Unfold(heap, o) = Unfold(pre, o)
            /\ \A l \in ValidLocations(pre) :
                 At(pre, l) = o =>
                   /\ l \in ValidLocations(heap) /\ At(heap, l) = o
                   /\ pre[o].parent = l[1] => heap[o].parent = l[1]
       /\ (SharedNodes(pre) = {}) =>
            /\ \A i \in DOMAIN pre[o].fields :
                 /\ IsNode(pre, pre[o].fields[i]) =>
                      heap[o].fields[i] = pre[o].fields[i]
                 /\ Unfold(heap, heap[o].fields[i]) = Unfold(pre, pre[o].fields[i])
            /\ ParentsRight(pre) => heap[o].parent = pre[o].parent

\* A specification without shared Nodes has a wrong parent_node only after a
\* run that split a shared Node.
WrongParentOnlyAfterSplit ==
  (SharedNodes(heap) = {} /\ Acyclic(heap) /\ ~ParentsRight(heap)) => runs >= 1

\* C9: refs2copies_fast returns a value that is not a Node as it is, also
\* when the same object was visited before.
C9_NonNodeReturnedUnchanged ==
  \A k \in DOMAIN calls :
    ~IsNode(heap, calls[k][1]) => calls[k][2] = calls[k][1]

\* C10: when process returns, spec.processors is the same list object as
\* before with the same content, and the traversal has not visited it.
C10_ProcessorsRestored ==
  Returned =>
     /\ heap[Root].fields[1] = ProcList
     /\ heap[ProcList] = pre[ProcList]
     /\ \A k \in DOMAIN visited : visited[k] # ProcList
     /\ \A k \in DOMAIN calls : calls[k][1] # ProcList /\ calls[k][2] # ProcList
     /\ \A o \in DOMAIN heap :
          (o # Root) => \A i \in DOMAIN heap[o].fields : heap[o].fields[i] # ProcList

\* A run has returned after traversing a specification with data in it.
C10_Witness ==
  /\ runs = 1 /\ status = "returned"
  /\ Len(pre[Root].fields) > 1
  /\ Len(visited) > 2

\* Supporting facts.
ReturnsOnlyOnAcyclic == Returned => Acyclic(pre)
AcyclicReturns ==
  (runs >= 1 /\ Acyclic(pre)) => status \in {"returned", "reparented"}
SecondRunChangesOnlyParents ==
  (runs = 2 /\ status = "returned" /\ ranOn = "returned") =>
     /\ Reach(heap) = Reach(pre)
     /\ \A o \in Reach(pre) : heap[o].fields = pre[o].fields

----------------------------------------------------------------------------
\* Properties of the Processor base class

Unrelated(c, d) == ~IsSubclass(c, d) /\ ~IsSubclass(d, c)

PairwiseUnrelated(reg) ==
  \A i, j \in DOMAIN reg : i # j => Unrelated(reg[i], reg[j])

PositionsOf(reg, c) == { j \in DOMAIN reg : reg[j] = c }

\* C4: with two processors run in registration order, a call
\* must_run_after(Q, ok_if_not_found=False) made by P during its process
\* raises nothing when Q is registered before P, and raises ProcessorError
\* naming Q when Q is registered after P.
C4_OrderingEnforced ==
  ( /\ lastCall.op = "must_run_after" /\ lastCall.during = "process"
    /\ ~lastCall.ok_if_not_found
    /\ Len(registered) = 2
    /\ lastCall.arg # lastCall.callerType
    /\ PositionsOf(registered, lastCall.arg) # {} ) =>
      \A j \in PositionsOf(registered, lastCall.arg) :
        /\ j < lastCall.caller => lastCall.error = "none"
        /\ j > lastCall.caller =>
             lastCall.error = "ProcessorError" /\ lastCall.names[1] = lastCall.arg

\* The same holds when the runner enters a processor in the run log as its
\* process starts and the two types are not related by subclassing.
OrderingEnforcedUnrelated ==
  ( /\ lastCall.op = "must_run_after" /\ lastCall.during = "process"
    /\ ~lastCall.ok_if_not_found
    /\ logAt = "start"
    /\ PairwiseUnrelated(registered)
    /\ lastCall.arg # lastCall.callerType
    /\ PositionsOf(registered, lastCall.arg) # {} ) =>
      \A j \in PositionsOf(registered, lastCall.arg) :
        /\ j < lastCall.caller => lastCall.error = "none"
        /\ j > lastCall.caller =>
             lastCall.error = "ProcessorError" /\ lastCall.names[1] = lastCall.arg

\* When the runner enters a processor in the run log after its process has
\* ended, the caller is never in the log and every such call that finds Q
\* raises: registered [Q, P] raises too.
LogAtEndAlwaysRaises ==
  ( /\ lastCall.op = "must_run_after" /\ lastCall.during = "process"
    /\ logAt = "end"
    /\ PairwiseUnrelated(registered)
    /\ lastCall.arg # lastCall.callerType
    /\ \E j \in PositionsOf(registered, lastCall.arg) : j < lastCall.caller ) =>
      lastCall.error = "ProcessorError"

\* Registered [S, Q] with S a subclass of Q and the log entered at the start:
\* S has called must_run_after(Q, False) and nothing was raised.
SubclassFirstNotRaised ==
  /\ registered = <<"S", "Q">> /\ logAt = "start"
  /\ lastCall.op = "must_run_after" /\ lastCall.during = "process"
  /\ lastCall.caller = 1 /\ lastCall.arg = "Q" /\ ~lastCall.ok_if_not_found
  /\ lastCall.error = "none"

\* C5: add_attr called inside declare_attrs with a Node subtype as target
\* completes without error and records the calling processor as the owner of
\* the attribute under the target type's name.
C5_AddAttrInDeclareAttrs ==
  ( /\ lastCall.op = "add_attr" /\ lastCall.during = "declare_attrs"
    /\ lastCall.arg \in NodeTypes ) =>
      /\ lastCall.error = "none"
      /\ <<lastCall.arg, lastCall.names[1], lastCall.caller>> \in owners

\* C8: must_run_after raises ProcessorError whenever the position found for
\* other is at or after the position found for the caller's own type, and
\* whenever other is not found and ok_if_not_found is false; it raises
\* nothing when other is found strictly before the caller.
C8_MustRunAfterRaises ==
  lastCall.op = "must_run_after" =>
    LET other_idx == get_index(lastCall.arg, processors_run)
        my_idx == get_index(lastCall.callerType, processors_run)
    IN /\ (other_idx # -1 /\ my_idx # -1 /\ other_idx >= my_idx)
            => lastCall.error = "ProcessorError"
       /\ (other_idx = -1 /\ ~lastCall.ok_if_not_found)
            => lastCall.error = "ProcessorError"
       /\ (other_idx # -1 /\ other_idx < my_idx) => lastCall.error = "none"

====
